---- MODULE Spec2Model ----
(***************************************************************************)
(* Model of scripts/icegroup_particles.py: load a particle table, group    *)
(* the rows by micrograph, run one segmentation task per micrograph in a   *)
(* process pool, apply the returned labels and write the table.            *)
(*                                                                         *)
(* Units.  Coordinates are held in half pixels (the value 5 is 2.5 px), so *)
(* np.floor is  c \div 2.  Finite segment values are held in 1/32 (the     *)
(* value -3 is -0.09375); such values are exact binary floats and so is    *)
(* their product with 10000, which is n * 10000 / 32.  Micrograph names    *)
(* are numbered in their lexicographic order.                              *)
(***************************************************************************)
EXTENDS Integers, Sequences, FiniteSets, TLC

VARIABLES star, segs, cpus, pc, particles, micrographs_used,
          micrographs_unique, mic_coord, task, taskres, finish_order,
          results, applied, output, stdout, exit_status

vars == <<star, segs, cpus, pc, particles, micrographs_used,
          micrographs_unique, mic_coord, task, taskres, finish_order,
          results, applied, output, stdout, exit_status>>

\* ---------------------------------------------------------------- bounds
MaxRows == 3
NumMics == 2
MaxCpus == 2

\* ---------------------------------------------------------------- inputs
Mics == 1..NumMics

Fin(n) == [kind |-> "finite", n |-> n]
NaN == [kind |-> "nan", n |-> 0]
PosInf == [kind |-> "inf", n |-> 0]

\* what ice_grouper returned for a micrograph: None, or a 2-D array
SegNone == [isNone |-> TRUE, cells |-> << >>]
SegA == [isNone |-> FALSE,
         cells |-> << <<Fin(1), NaN, Fin(-3)>>,
                      <<Fin(64), Fin(-1), PosInf>> >>]
SegB == [isNone |-> FALSE,
         cells |-> << <<Fin(7), Fin(0), Fin(-64)>> >>]
SegImages == {SegNone, SegA, SegB}

\* (x, y) in half pixels; floors are (0,0), (2,1), (-1,-2), (3,0)
Coords == { <<1, 0>>, <<5, 3>>, <<-1, -3>>, <<6, 0>> }

Row(m, c) == [rlnMicrographName |-> m, rlnCoordinateX |-> c[1],
              rlnCoordinateY |-> c[2]]

SeqsUpTo(S, n) == UNION { [1..k -> S] : k \in 0..n }

RowsWithMic == { Row(m, c) : m \in Mics, c \in Coords }
\* the cells of an absent column cannot be read; 1 is a placeholder
RowsNoMic == { Row(1, c) : c \in Coords }

CoordCols == {"rlnCoordinateX", "rlnCoordinateY"}

SmallTables ==
  { [columns |-> CoordCols \cup {"rlnMicrographName"}, rows |-> r] :
        r \in SeqsUpTo(RowsWithMic, MaxRows) }
  \cup
  { [columns |-> CoordCols, rows |-> r] : r \in SeqsUpTo(RowsNoMic, MaxRows) }

\* the coordinates used in the six-row tables
ScenarioCoords == { <<1, 0>>, <<5, 3>>, <<-1, -3>> }

\* two micrographs with three particles each
ScenarioTables ==
  { [columns |-> CoordCols \cup {"rlnMicrographName"},
     rows |-> << Row(1, c[1]), Row(2, c[2]), Row(1, c[3]),
                 Row(2, c[4]), Row(1, c[5]), Row(2, c[6]) >>] :
        c \in [1..6 -> ScenarioCoords] }

\* ------------------------------------------------------- load_star_file
WithIceGroupZero(rows) ==
  [k \in 1..Len(rows) |->
     [rlnMicrographName |-> rows[k].rlnMicrographName,
      rlnCoordinateX |-> rows[k].rlnCoordinateX,
      rlnCoordinateY |-> rows[k].rlnCoordinateY,
      ibIceGroup |-> 0]]

\* particles["ibIceGroup"] = -1
WithIceGroup(rows) ==
  [k \in 1..Len(rows) |->
     [rlnMicrographName |-> rows[k].rlnMicrographName,
      rlnCoordinateX |-> rows[k].rlnCoordinateX,
      rlnCoordinateY |-> rows[k].rlnCoordinateY,
      ibIceGroup |-> -1]]

AlwaysHasMicrographColumn(table) == TRUE

\* "rlnMicrographName" in particles.columns
HasMicrographColumn(table) == "rlnMicrographName" \in table.columns

MicrographColumn(table) ==
  [k \in 1..Len(table.rows) |-> table.rows[k].rlnMicrographName]

\* ------------------------------------------------ get_unique_micrographs
Min(S) == CHOOSE m \in S : \A o \in S : m <= o

RECURSIVE SortedList(_)
SortedList(S) ==
  IF S = {} THEN << >>
  ELSE LET m == Min(S) IN <<m>> \o SortedList(S \ {m})

Range(s) == { s[k] : k \in 1..Len(s) }

Max(S) == CHOOSE m \in S : \A o \in S : m >= o

RECURSIVE ReverseList(_)
ReverseList(S) ==
  IF S = {} THEN << >>
  ELSE LET m == Max(S) IN <<m>> \o ReverseList(S \ {m})

UniqueUnsorted(used) == ReverseList(Range(used))

\* list(set(micrographs_used)); .sort()
UniqueSorted(used) == SortedList(Range(used))

\* [i for i, e in enumerate(micrographs_used) if e == mic]
IndicesOf(used, mic) ==
  SelectSeq([k \in 1..Len(used) |-> k - 1], LAMBDA i : used[i + 1] = mic)

MicCoord(used) == [mic \in Range(used) |-> IndicesOf(used, mic)]

\* ----------------------------------------- process_particle_icethickness
\* int(np.floor(c)) for a coordinate in half pixels
FloorCoord(c) == c \div 2

\* a Python index i is valid for a length-n axis iff -n <= i < n
InRange(n, i) == -n <= i /\ i < n

\* position (from 1) of Python index i on a length-n axis
PyIndex(n, i) == IF i < 0 THEN i + n + 1 ELSE i + 1

\* seg_img[y1][x1] raises IndexError
IndexFault(seg_img, y1, x1) ==
  \/ ~InRange(Len(seg_img.cells), y1)
  \/ ~InRange(Len(seg_img.cells[PyIndex(Len(seg_img.cells), y1)]), x1)

\* seg_img[y1][x1]
CellAt(seg_img, y1, x1) ==
  LET row == seg_img.cells[PyIndex(Len(seg_img.cells), y1)]
  IN row[PyIndex(Len(row), x1)]

IsNotNaN(cell) == cell.kind # "nan"

\* np.isfinite
IsFinite(cell) == cell.kind = "finite"

\* int(q) of the quotient a / b, b > 0: truncation toward zero
TruncDiv(a, b) == IF a >= 0 THEN a \div b ELSE -((-a) \div b)

IceLabelFloor(cell) == (cell.n * 10000) \div 32

\* int(seg_img[y1][x1] * 10000)
IceLabel(cell) == TruncDiv(cell.n * 10000, 32)

X1(tbl, part_ind) == FloorCoord(tbl[part_ind + 1].rlnCoordinateX)
Y1(tbl, part_ind) == FloorCoord(tbl[part_ind + 1].rlnCoordinateY)

\* the task for one micrograph: [ok |-> FALSE] when the loop raises,
\* otherwise the dictionary ice_group
ProcessParticleIcethickness(seg_img, idxs, tbl) ==
  LET inds == Range(idxs)
      faults == { i \in inds : ~seg_img.isNone
                               /\ IndexFault(seg_img, Y1(tbl, i), X1(tbl, i)) }
      kept == { i \in inds : ~seg_img.isNone
                  /\ IsFinite(CellAt(seg_img, Y1(tbl, i), X1(tbl, i))) }
  IN IF faults # {}
     THEN [ok |-> FALSE, ice_group |-> << >>]
     ELSE [ok |-> TRUE,
           ice_group |->
             [i \in kept |-> IceLabel(CellAt(seg_img, Y1(tbl, i), X1(tbl, i)))]]

\* ------------------------------------------ apply_ice_group_to_particles
MissingRow(v) == [rlnMicrographName |-> 0, rlnCoordinateX |-> 0,
                  rlnCoordinateY |-> 0, ibIceGroup |-> v]

\* particles.at[part_ind, 'ibIceGroup'] = ice_group; .at on a label that
\* is not in the index enlarges the frame by one row
SetAt(tbl, part_ind, v) ==
  IF part_ind \in 0..(Len(tbl) - 1)
  THEN [tbl EXCEPT ![part_ind + 1].ibIceGroup = v]
  ELSE Append(tbl, MissingRow(v))

\* the loop over result.items(), keys in insertion (ascending row) order
RECURSIVE ApplyItems(_, _, _)
ApplyItems(result, keys, tbl) ==
  IF keys = {} THEN tbl
  ELSE LET k == Min(keys)
       IN ApplyItems(result, keys \ {k}, SetAt(tbl, k, result[k]))

ApplyIceGroupOffByOne(result, tbl) ==
  LET shifted == [k \in { j + 1 : j \in DOMAIN result } |-> result[k - 1]]
  IN ApplyItems(shifted, DOMAIN shifted, tbl)

\* for part_ind, ice_group in result.items(): ...
ApplyIceGroupToParticles(result, tbl) ==
  ApplyItems(result, DOMAIN result, tbl)

\* ------------------------------------------------------------- starmap
Complete(st) == st \in {"done", "failed"}

SomeTaskDone(t) == t = << >> \/ \E i \in 1..Len(t) : t[i] = "done"

\* the map result is ready once every task has reported
BatchComplete(t) == \A i \in 1..Len(t) : Complete(t[i])

NeverFailed(t) == FALSE

\* some task reported an exception
AnyFailed(t) == \E i \in 1..Len(t) : t[i] = "failed"

WriteAnyTime(n, res) == TRUE

\* the  for result in results  loop has run to its end
AllApplied(n, res) == n = Len(res)

Running(t) == { i \in 1..Len(t) : t[i] = "running" }
Pending(t) == { i \in 1..Len(t) : t[i] = "pending" }

\* ---------------------------------------------------------------- Init
Init ==
  /\ star \in SmallTables \cup ScenarioTables
  /\ segs \in [Mics -> SegImages]
  /\ cpus \in 1..MaxCpus
  /\ pc = "start"
  /\ particles = << >>
  /\ micrographs_used = << >>
  /\ micrographs_unique = << >>
  /\ mic_coord = << >>
  /\ task = << >>
  /\ taskres = << >>
  /\ finish_order = << >>
  /\ results = << >>
  /\ applied = 0
  /\ output = [written |-> FALSE, rows |-> << >>]
  /\ stdout = << >>
  /\ exit_status = << >>

\* -------------------------------------------------------------- actions
\* load_star_file, column present
LoadStarFile ==
  /\ pc = "start"
  /\ HasMicrographColumn(star)
  /\ particles' = WithIceGroup(star.rows)
  /\ micrographs_used' = MicrographColumn(star)
  /\ pc' = "loaded"
  /\ UNCHANGED <<star, segs, cpus, micrographs_unique, mic_coord, task,
                 taskres, finish_order, results, applied, output, stdout,
                 exit_status>>

\* load_star_file, column absent: print and exit()
LoadStarFileExit ==
  /\ pc = "start"
  /\ ~HasMicrographColumn(star)
  /\ particles' = WithIceGroup(star.rows)
  /\ stdout' = Append(stdout, "No micrograph name present, exiting")
  /\ exit_status' = <<0>>
  /\ pc' = "exited"
  /\ UNCHANGED <<star, segs, cpus, micrographs_used, micrographs_unique,
                 mic_coord, task, taskres, finish_order, results, applied,
                 output>>

\* get_unique_micrographs, then Pool(args.cpus) and the starmap submission
GetUniqueMicrographs ==
  /\ pc = "loaded"
  /\ micrographs_unique' = UniqueSorted(micrographs_used)
  /\ mic_coord' = MicCoord(micrographs_used)
  /\ task' = [i \in 1..Len(UniqueSorted(micrographs_used)) |-> "pending"]
  /\ taskres' = [i \in 1..Len(UniqueSorted(micrographs_used)) |-> << >>]
  /\ pc' = "dispatch"
  /\ UNCHANGED <<star, segs, cpus, particles, micrographs_used, finish_order,
                 results, applied, output, stdout, exit_status>>

\* an idle pool worker takes the next task off the queue
StartTask ==
  /\ pc = "dispatch"
  /\ Pending(task) # {}
  /\ Cardinality(Running(task)) < cpus
  /\ task' = [task EXCEPT ![Min(Pending(task))] = "running"]
  /\ UNCHANGED <<star, segs, cpus, pc, particles, micrographs_used,
                 micrographs_unique, mic_coord, taskres, finish_order,
                 results, applied, output, stdout, exit_status>>

\* a worker finishes process_particle_icethickness(args, mic)
FinishTask ==
  /\ pc = "dispatch"
  /\ \E i \in Running(task) :
       LET mic == micrographs_unique[i]
           r == ProcessParticleIcethickness(segs[mic], mic_coord[mic],
                                            particles)
       IN /\ task' = [task EXCEPT ![i] = IF r.ok THEN "done" ELSE "failed"]
          /\ taskres' = [taskres EXCEPT ![i] = r.ice_group]
          /\ finish_order' = Append(finish_order, i)
  /\ UNCHANGED <<star, segs, cpus, pc, particles, micrographs_used,
                 micrographs_unique, mic_coord, results, applied, output,
                 stdout, exit_status>>

\* p.starmap returns the result list, in task order
StarmapReturn ==
  /\ pc = "dispatch"
  /\ BatchComplete(task)
  /\ ~AnyFailed(task)
  /\ results' = taskres
  /\ applied' = 0
  /\ pc' = "apply"
  /\ UNCHANGED <<star, segs, cpus, particles, micrographs_used,
                 micrographs_unique, mic_coord, task, taskres, finish_order,
                 output, stdout, exit_status>>

\* p.starmap re-raises a task's exception; nothing catches it
StarmapRaise ==
  /\ pc = "dispatch"
  /\ BatchComplete(task)
  /\ AnyFailed(task)
  /\ pc' = "aborted"
  /\ exit_status' = <<1>>
  /\ UNCHANGED <<star, segs, cpus, particles, micrographs_used,
                 micrographs_unique, mic_coord, task, taskres, finish_order,
                 results, applied, output, stdout>>

\* one iteration of  for result in results: apply_ice_group_to_particles
ApplyResult ==
  /\ pc = "apply"
  /\ applied < Len(results)
  /\ particles' = ApplyIceGroupToParticles(results[applied + 1], particles)
  /\ applied' = applied + 1
  /\ UNCHANGED <<star, segs, cpus, pc, micrographs_used, micrographs_unique,
                 mic_coord, task, taskres, finish_order, results, output,
                 stdout, exit_status>>

\* df["particles"] = particles; starfile.write(df, args.output_star)
WriteStar ==
  /\ pc = "apply"
  /\ AllApplied(applied, results)
  /\ output' = [written |-> TRUE, rows |-> particles]
  /\ exit_status' = <<0>>
  /\ pc' = "done"
  /\ UNCHANGED <<star, segs, cpus, particles, micrographs_used,
                 micrographs_unique, mic_coord, task, taskres, finish_order,
                 results, applied, stdout>>

Next ==
  \/ LoadStarFile
  \/ LoadStarFileExit
  \/ GetUniqueMicrographs
  \/ StartTask
  \/ FinishTask
  \/ StarmapReturn
  \/ StarmapRaise
  \/ ApplyResult
  \/ WriteStar

Spec == Init /\ [][Next]_vars

\* ------------------------------------------------------------ properties
Started == pc # "start"
Grouped == pc \in {"dispatch", "apply", "done", "aborted"}

\* the micrograph of input row k (from 1) and the cell its floored
\* coordinate selects in that micrograph's segment image
RowSeg(k) == segs[star.rows[k].rlnMicrographName]
RowCell(k) == CellAt(RowSeg(k), FloorCoord(star.rows[k].rlnCoordinateY),
                     FloorCoord(star.rows[k].rlnCoordinateX))
RowFinite(k) == ~RowSeg(k).isNone /\ RowCell(k).kind = "finite"
RowNonFinite(k) == ~RowSeg(k).isNone /\ RowCell(k).kind # "finite"
OutLabel(k) == output.rows[k].ibIceGroup

StrictlyAscending(s) == \A a, b \in 1..Len(s) : a < b => s[a] < s[b]

\* C1: a table without the rlnMicrographName column never gets past
\* load_star_file: nothing is grouped, no task exists, nothing is written.
C1_NoOutputWithoutColumn ==
  "rlnMicrographName" \notin star.columns =>
     /\ pc \in {"start", "exited"}
     /\ ~output.written
     /\ micrographs_unique = << >> /\ mic_coord = << >>
     /\ task = << >> /\ results = << >>

C1_Witness ==
  /\ pc = "exited"
  /\ "rlnMicrographName" \notin star.columns
  /\ Len(particles) >= 2

\* C2 (as claimed): the written label of a particle on a finite cell v is
\* floor(v * 10000), negative and non-integral products included.
C2_FloorLabel ==
  pc = "done" =>
    \A k \in 1..Len(output.rows) :
      RowFinite(k) => OutLabel(k) = (RowCell(k).n * 10000) \div 32

\* C2 (amended): the written label of a particle on a finite cell v is
\* v * 10000 truncated toward zero.
C2_TruncLabel ==
  pc = "done" =>
    \A k \in 1..Len(output.rows) :
      RowFinite(k) => OutLabel(k) = TruncDiv(RowCell(k).n * 10000, 32)

C2_Witness ==
  /\ pc = "done"
  /\ \E k \in 1..Len(output.rows) :
       /\ RowFinite(k)
       /\ RowCell(k).n < 0
       /\ (RowCell(k).n * 10000) % 32 # 0
       /\ OutLabel(k) = -((-RowCell(k).n * 10000) \div 32)
       /\ OutLabel(k) # (RowCell(k).n * 10000) \div 32

\* C3: particles of a micrograph whose segment image is None are written
\* with the sentinel -1, while particles of the other micrographs in the
\* same run carry their computed labels.
C3_MissingImageSentinel ==
  pc = "done" =>
    \A k \in 1..Len(output.rows) :
      /\ RowSeg(k).isNone => OutLabel(k) = -1
      /\ RowFinite(k) => OutLabel(k) = IceLabel(RowCell(k))

\* two micrographs, three particles each, one image missing
C3_Witness ==
  /\ pc = "done"
  /\ Len(output.rows) = 6
  /\ \E m, o \in Mics :
       /\ segs[m].isNone /\ ~segs[o].isNone
       /\ Cardinality({k \in 1..6 : star.rows[k].rlnMicrographName = m
                                     /\ OutLabel(k) = -1}) = 3
       /\ Cardinality({k \in 1..6 : star.rows[k].rlnMicrographName = o
                                     /\ RowFinite(k)
                                     /\ OutLabel(k) # -1}) = 3

\* C4: the particle table, and the table written, keep the rows of the
\* input table, in number and in order; only ibIceGroup is set.
SameRows(tbl) ==
  /\ Len(tbl) = Len(star.rows)
  /\ \A k \in 1..Len(tbl) :
       /\ tbl[k].rlnMicrographName = star.rows[k].rlnMicrographName
       /\ tbl[k].rlnCoordinateX = star.rows[k].rlnCoordinateX
       /\ tbl[k].rlnCoordinateY = star.rows[k].rlnCoordinateY

C4_RowsPreserved ==
  /\ Started => SameRows(particles)
  /\ output.written => SameRows(output.rows)

C4_Witness ==
  /\ pc = "done"
  /\ Len(output.rows) >= 3
  /\ micrographs_used[1] > micrographs_used[2]
  /\ \E k \in 1..Len(output.rows) : OutLabel(k) # -1

\* C5: the labels written do not depend on the pool size nor on the order
\* in which the tasks ran and finished: they are those of running the tasks
\* one after the other in the order of the sorted micrograph list.
RECURSIVE SequentialRun(_, _, _)
SequentialRun(mics, used, tbl) ==
  IF mics = << >> THEN tbl
  ELSE SequentialRun(Tail(mics), used,
         ApplyIceGroupToParticles(
           ProcessParticleIcethickness(segs[Head(mics)],
                                       IndicesOf(used, Head(mics)),
                                       WithIceGroup(star.rows)).ice_group,
           tbl))

C5_Deterministic ==
  pc = "done" =>
    output.rows = SequentialRun(UniqueSorted(MicrographColumn(star)),
                                MicrographColumn(star),
                                WithIceGroup(star.rows))

\* the second task finished first, and both labelled a particle
C5_Witness ==
  /\ pc = "done"
  /\ cpus = 2
  /\ finish_order = <<2, 1>>
  /\ \A i \in 1..2 : DOMAIN results[i] # {}

\* C7: get_unique_micrographs returns the sorted duplicate-free list of the
\* identifiers present and, per identifier, the ascending list of the rows
\* that hold it; every row index 0..n-1 is in exactly one list.
C7_Partition ==
  Grouped =>
    /\ StrictlyAscending(micrographs_unique)
    /\ Range(micrographs_unique) = Range(micrographs_used)
    /\ DOMAIN mic_coord = Range(micrographs_used)
    /\ \A m \in DOMAIN mic_coord :
         /\ StrictlyAscending(mic_coord[m])
         /\ Range(mic_coord[m]) =
              { i \in 0..(Len(micrographs_used) - 1) :
                    micrographs_used[i + 1] = m }
    /\ \A i \in 0..(Len(micrographs_used) - 1) :
         Cardinality({ m \in DOMAIN mic_coord : i \in Range(mic_coord[m]) }) = 1

C7_Witness ==
  /\ pc = "dispatch"
  /\ micrographs_used = <<2, 1, 2>>
  /\ micrographs_unique = <<1, 2>>
  /\ mic_coord[2] = <<0, 2>>

\* C8: a task's result mapping has an entry exactly for the rows of its own
\* micrograph whose cell is finite; a particle on a non-finite cell has no
\* entry and is written with the sentinel -1.
C8_NonFiniteSkipped ==
  /\ \A i \in 1..Len(task) :
       task[i] = "done" =>
         DOMAIN taskres[i] =
           { p \in Range(mic_coord[micrographs_unique[i]]) : RowFinite(p + 1) }
  /\ pc = "done" =>
       \A k \in 1..Len(output.rows) : RowNonFinite(k) => OutLabel(k) = -1

C8_Witness ==
  /\ pc = "done"
  /\ \E k \in 1..Len(output.rows) :
       /\ RowNonFinite(k)
       /\ OutLabel(k) = -1
       /\ \A i \in 1..Len(results) : (k - 1) \notin DOMAIN results[i]
  /\ \E k \in 1..Len(output.rows) : RowFinite(k)

\* C9: once a task has raised, no label is ever applied and nothing is
\* written, whatever the other tasks returned.
C9_FaultAborts ==
  (\E i \in 1..Len(task) : task[i] = "failed") =>
     /\ pc \in {"dispatch", "aborted"}
     /\ ~output.written
     /\ \A k \in 1..Len(particles) : particles[k].ibIceGroup = -1

C9_Witness ==
  /\ pc = "aborted"
  /\ exit_status = <<1>>
  /\ \E i \in 1..Len(task) : task[i] = "done" /\ DOMAIN taskres[i] # {}

\* C10: a task step leaves the particle table and the index map alone; a
\* label changes only in the apply step, after every task has finished and
\* before the write; the write comes after the last result is applied.
C10_Step ==
  /\ (pc = "dispatch" /\ task' # task) =>
        (particles' = particles /\ mic_coord' = mic_coord)
  /\ (Started /\ particles' # particles) =>
        /\ pc = "apply"
        /\ \A i \in 1..Len(task) : task[i] = "done"
        /\ ~output.written
  /\ (output' # output) =>
        /\ applied = Len(results)
        /\ \A i \in 1..Len(task) : task[i] = "done"
        /\ particles' = particles

C10_MutationAfterBatch == [][C10_Step]_vars

C10_Witness ==
  /\ pc = "done"
  /\ Len(task) = 2
  /\ applied = 2
  /\ \A i \in 1..2 : DOMAIN results[i] # {}

\* C6 (as claimed): the exit on a missing column prints a diagnostic and
\* has a failure status; a run that completes exits with success after the
\* write.
C6_FailureExitStatus ==
  /\ pc = "exited" => (stdout # << >> /\ exit_status # <<0>>)
  /\ pc = "done" => (output.written /\ exit_status = <<0>>)

TypeOK == pc \in {"start", "loaded", "dispatch", "apply", "done", "exited",
                  "aborted"}
====
